---------------------------- MODULE Spec2Model ----------------------------
(***************************************************************************)
(* A model of ttlcollections: TTLQueue, TTLStack and TTLHeap, containers  *)
(* whose entries carry an expiration date and are swept lazily by         *)
(* expire() at the start of put/push, get/pop and the 'in' operator.      *)
(*                                                                         *)
(* One container is modelled per behaviour; its class is chosen by Init.  *)
(* The backing deque/list is the sequence `queue` (self._queue, and       *)
(* self._stack for TTLStack), index 1 being Python's index 0.             *)
(***************************************************************************)
EXTENDS Integers, Sequences, FiniteSets

\* ------------------------------------------------------------- bounds
\* Elements are the integers 1..MaxVal.
MaxVal == 2
\* ttl arguments (per element and per container) range over 0..MaxTtl.
MaxTtl == 2
\* The timer's readings range over 0..MaxClock.
MaxClock == 2
\* A container holds at most MaxLen entries (it bounds the containers
\* constructed with no size limit); size arguments range over 0..MaxLen.
MaxLen == 3

Values == 1..MaxVal
Kinds == {"queue", "stack", "heap"}

\* math.inf, the size of a container constructed with size 0: a number no
\* length reaches.
inf == 1000

VARIABLES
    kind,     \* the class of the container: "queue", "stack" or "heap"
    qsize,    \* self.qsize (self.size for TTLStack)
    ttl,      \* self.ttl
    clock,    \* the latest reading of self.timer()
    queue,    \* self._queue (self._stack for TTLStack)
    last,     \* what the latest operation did and returned
    expired,  \* history: TRUE once a sweep has removed an entry
    pending   \* history, kept while expired is FALSE: the objects inserted
              \* and not yet returned by get/pop, in insertion order

vars == <<kind, qsize, ttl, clock, queue, last, expired, pending>>

\* ------------------------------------------------------------- TTLItem
TTLItem(obj, date) == [obj |-> obj, date |-> date]

\* The date None of the entry that __contains__ builds to search with; it is
\* the date of no stored entry.
None == -1

\* An ordering of the entries by their dates.
TTLItem_lt_by_date(self, other) == self.date < other.date

\* TTLItem.__lt__: the wrapped objects are compared, never the dates.
TTLItem_lt(self, other) == self.obj < other.obj

\* TTLItem.__eq__: the wrapped objects are compared, never the dates.
TTLItem_eq(self, other) == self.obj = other.obj

\* --------------------------------------------------- deque / list helpers
\* A remove that deletes every entry that compares equal to item.
remove_all(q, item) == SelectSeq(q, LAMBDA x : x.obj # item.obj)

\* deque.remove(item), list.remove(item): delete the first entry that
\* compares equal to item.
remove(q, item) ==
    LET j == CHOOSE k \in 1..Len(q) :
                 /\ TTLItem_eq(q[k], item)
                 /\ \A m \in 1..(k - 1) : ~TTLItem_eq(q[m], item)
    IN  SubSeq(q, 1, j - 1) \o SubSeq(q, j + 1, Len(q))

\* An append that puts the entry at the left end.
append_at_left(q, item) == <<item>> \o q

\* deque.append(item): the entry goes to the right end.
append(q, item) == Append(q, item)

\* An appendleft that puts the entry at the right end.
appendleft_at_right(q, item) == Append(q, item)

\* deque.appendleft(item): the entry goes to the left end.
appendleft(q, item) == <<item>> \o q

\* deque.popleft(): the entry it returns ...
popleft_item(q) == Head(q)

\* ... and the deque it leaves.
popleft_rest(q) == Tail(q)

\* An emptiness test that also takes a single entry for none.
is_empty_short(q) == Len(q) <= 1

\* not self._queue, not self._stack: the container holds no entry.
is_empty(q) == q = <<>>

\* A search that compares the dates as well as the objects.
contains_exact(q, item) == \E k \in 1..Len(q) : q[k] = item

\* deque.__contains__(item), list.__contains__(item)
contains(q, item) == \E k \in 1..Len(q) : TTLItem_eq(q[k], item)


\* ------------------------------------------------------------- heapq
\* heapq._siftdown(heap, startpos, pos), positions counted from 0: move the
\* entry at pos up while it is less than its parent.
RECURSIVE siftdown_loop(_, _, _, _)
siftdown_loop(heap, startpos, pos, newitem) ==
    IF pos > startpos
    THEN LET parentpos == (pos - 1) \div 2
             parent == heap[parentpos + 1]
         IN  IF TTLItem_lt(newitem, parent)
             THEN siftdown_loop([heap EXCEPT ![pos + 1] = parent],
                                startpos, parentpos, newitem)
             ELSE [heap EXCEPT ![pos + 1] = newitem]
    ELSE [heap EXCEPT ![pos + 1] = newitem]

siftdown(heap, startpos, pos) ==
    siftdown_loop(heap, startpos, pos, heap[pos + 1])

\* heapq._siftup(heap, pos): bubble the smaller child up until a leaf is hit,
\* then sift the displaced entry down to its place.
RECURSIVE siftup_loop(_, _, _, _)
siftup_loop(heap, startpos, pos, newitem) ==
    LET endpos == Len(heap)
        childpos == 2 * pos + 1
        rightpos == childpos + 1
    IN  IF childpos < endpos
        THEN LET c == IF /\ rightpos < endpos
                         /\ ~TTLItem_lt(heap[childpos + 1], heap[rightpos + 1])
                      THEN rightpos
                      ELSE childpos
             IN  siftup_loop([heap EXCEPT ![pos + 1] = heap[c + 1]],
                             startpos, c, newitem)
        ELSE siftdown([heap EXCEPT ![pos + 1] = newitem], startpos, pos)

siftup(heap, pos) == siftup_loop(heap, pos, pos, heap[pos + 1])

\* heapq.heappush(heap, item)
heappush(heap, item) == siftdown(Append(heap, item), 0, Len(heap))

\* heapq.heappop(heap): the entry it returns ...
heappop_item(heap) == heap[1]

\* ... and the list it leaves.
heappop_rest(heap) ==
    LET lastelt == heap[Len(heap)]
        rest == SubSeq(heap, 1, Len(heap) - 1)
    IN  IF rest = <<>> THEN rest ELSE siftup([rest EXCEPT ![1] = lastelt], 0)

\* ------------------------------------------------------------- expire
\* A test that keeps an entry whose date is equal to `when`.
is_expired_strict(item, when) == item.date < when

\* The test of the sweep: the entry's date is less than or equal to `when`.
is_expired(item, when) == item.date <= when

\* A loop that moves on to index i + 1 after a removal (no i -= 1).
RECURSIVE TTLQueue_expire_loop_skip(_, _, _, _)
TTLQueue_expire_loop_skip(q, i, n, when) ==
    IF i < n
    THEN LET item == q[i + 1]
         IN  IF item.date <= when
             THEN LET j == CHOOSE k \in 1..Len(q) :
                               /\ q[k].obj = item.obj
                               /\ \A m \in 1..(k - 1) : q[m].obj # item.obj
                      q2 == SubSeq(q, 1, j - 1) \o SubSeq(q, j + 1, Len(q))
                  IN  TTLQueue_expire_loop_skip(q2, i + 1, Len(q2), when)
             ELSE TTLQueue_expire_loop_skip(q, i + 1, n, when)
    ELSE q

\* TTLQueue.expire(when): the loop over index i (counted from 0) with the
\* length n re-read after each removal. The entry at i is tested; the entry
\* removed is the first one that compares equal to it.
RECURSIVE TTLQueue_expire_loop(_, _, _, _)
TTLQueue_expire_loop(q, i, n, when) ==
    IF i < n
    THEN LET item == q[i + 1]
         IN  IF is_expired(item, when)
             THEN LET q2 == remove(q, item)
                  IN  TTLQueue_expire_loop(q2, (i - 1) + 1, Len(q2), when)
             ELSE TTLQueue_expire_loop(q, i + 1, n, when)
    ELSE q

TTLQueue_expire(q, when) == TTLQueue_expire_loop(q, 0, Len(q), when)

\* The entries the loop of TTLQueue.expire tests (item = self._queue[i]), in
\* the order it tests them.
RECURSIVE TTLQueue_expire_visited(_, _, _, _)
TTLQueue_expire_visited(q, i, n, when) ==
    IF i < n
    THEN LET item == q[i + 1]
         IN  <<item>> \o
             (IF is_expired(item, when)
              THEN LET q2 == remove(q, item)
                   IN  TTLQueue_expire_visited(q2, (i - 1) + 1, Len(q2), when)
              ELSE TTLQueue_expire_visited(q, i + 1, n, when))
    ELSE <<>>

\* TTLStack.expire(when): the same loop over self._stack.
RECURSIVE TTLStack_expire_loop(_, _, _, _)
TTLStack_expire_loop(s, i, n, when) ==
    IF i < n
    THEN LET item == s[i + 1]
         IN  IF is_expired(item, when)
             THEN LET s2 == remove(s, item)
                  IN  TTLStack_expire_loop(s2, (i - 1) + 1, Len(s2), when)
             ELSE TTLStack_expire_loop(s, i + 1, n, when)
    ELSE s

TTLStack_expire(s, when) == TTLStack_expire_loop(s, 0, Len(s), when)

\* The entries the loop of TTLStack.expire tests (item = self._stack[i]).
RECURSIVE TTLStack_expire_visited(_, _, _, _)
TTLStack_expire_visited(s, i, n, when) ==
    IF i < n
    THEN LET item == s[i + 1]
         IN  <<item>> \o
             (IF is_expired(item, when)
              THEN LET s2 == remove(s, item)
                   IN  TTLStack_expire_visited(s2, (i - 1) + 1, Len(s2), when)
              ELSE TTLStack_expire_visited(s, i + 1, n, when))
    ELSE <<>>

\* TTLHeap.expire(when): super().expire(when) on the heap's list.
TTLHeap_expire(h, when) == TTLQueue_expire(h, when)

\* The entries self.expire(when) tests on the backing sequence q.
visited(q, when) ==
    IF kind = "stack" THEN TTLStack_expire_visited(q, 0, Len(q), when)
    ELSE TTLQueue_expire_visited(q, 0, Len(q), when)

\* self.expire(when) on the backing sequence q of the container at hand.
expire(q, when) ==
    IF kind = "stack" THEN TTLStack_expire(q, when)
    ELSE IF kind = "heap" THEN TTLHeap_expire(q, when)
    ELSE TTLQueue_expire(q, when)

\* ------------------------------------------------------------- history
\* The record kept of the latest operation: its name ("put" for put/push,
\* "get" for get/pop, "in" for the membership test), its argument (0 when it
\* has none), the ttl argument and the effective ttl of an insertion, the
\* timer reading handed to expire, the number of entries expire removed, the
\* backing sequence as expire left it, the exception raised ("" when none),
\* the object returned by get/pop (0 when none), the truth value returned
\* ('in', bool, ==), the objects yielded by an iteration and the list a
\* comparison was given.
Outcome(op, arg, t, ettl, when, q, swept, raised, ret, found) ==
    [op |-> op, arg |-> arg, t |-> t, ettl |-> ettl, when |-> when,
     removed |-> Len(q) - Len(swept), swept |-> swept,
     raised |-> raised, ret |-> ret, found |-> found,
     seq |-> <<>>, other |-> <<>>]

\* The record of an operation that reads no timer and calls no expire:
\* "bool", "iter" or "eq".
Observed(op, other, raised, found, seq) ==
    [Outcome(op, 0, 0, 0, None, queue, queue, raised, 0, found)
        EXCEPT !.seq = seq, !.other = other]

\* The sweep that turned q into swept removed an entry.
removed_some(q, swept) == Len(swept) < Len(q)

\* pending without its oldest (newest) occurrence of the object v.
RECURSIVE drop_oldest(_, _)
drop_oldest(p, v) ==
    IF p = <<>> THEN p
    ELSE IF Head(p) = v THEN Tail(p)
    ELSE <<Head(p)>> \o drop_oldest(Tail(p), v)

RECURSIVE drop_newest(_, _)
drop_newest(p, v) ==
    IF p = <<>> THEN p
    ELSE IF p[Len(p)] = v THEN SubSeq(p, 1, Len(p) - 1)
    ELSE drop_newest(SubSeq(p, 1, Len(p) - 1), v) \o <<p[Len(p)]>>

\* The history after an operation whose sweep turned q into swept and which
\* then inserted the object put (0: none) or returned the object got (0: none).
History(q, swept, put, got) ==
    /\ expired' = (expired \/ removed_some(q, swept))
    /\ pending' = IF expired \/ removed_some(q, swept) THEN <<>>
                  ELSE IF put # 0 THEN Append(pending, put)
                  ELSE IF got # 0
                       THEN IF kind = "stack" THEN drop_newest(pending, got)
                            ELSE drop_oldest(pending, got)
                  ELSE pending

\* ------------------------------------------------------------- Init
\* __init__(size, ttl, timer): size 0 stands for no limit.
Init ==
    /\ kind \in Kinds
    /\ \E size \in 0..MaxLen : qsize = IF size # 0 THEN size ELSE inf
    /\ ttl \in 0..MaxTtl
    /\ clock = 0
    /\ queue = <<>>
    /\ last = Outcome("init", 0, 0, 0, 0, <<>>, <<>>, "", 0, FALSE)
    /\ expired = FALSE
    /\ pending = <<>>

\* Time passes between two operations, up to the reading `limit`.
TickTo(limit) ==
    /\ clock < limit
    /\ clock' = clock + 1
    /\ last' = Outcome("tick", 0, 0, 0, clock + 1, queue, queue, "", 0,
                     FALSE)
    /\ UNCHANGED <<kind, qsize, ttl, queue, expired, pending>>

Tick == TickTo(MaxClock)

\* An effective ttl that lets a ttl argument only lengthen the default.
effective_ttl_longest(t) == IF t > ttl THEN t ELSE ttl

\* The effective ttl of an insertion: ttl if ttl else self.ttl
effective_ttl(t) == IF t # 0 THEN t ELSE ttl

\* A guard that lets an insertion through when the container is at capacity.
has_room_lax(q) == Len(q) <= qsize

\* A guard that refuses an insertion one entry early.
has_room_tight(q) == Len(q) + 1 < qsize

\* The test that guards the insertion: len(self._queue) < self.qsize
has_room(q) == Len(q) < qsize

\* TTLQueue.put(element, t) on a queue: sweep at the first timer reading
\* (clock), date the entry from the second reading (now2), append it unless
\* the queue is full.
TTLQueue_put_call(element, t, now2) ==
    LET when == clock
        swept == TTLQueue_expire(queue, when)
        date == effective_ttl(t) + now2
    IN  /\ clock' = now2
        /\ IF has_room(swept)
           THEN /\ Len(swept) < MaxLen
                /\ queue' = append(swept, TTLItem(element, date))
                /\ History(queue, swept, element, 0)
                /\ last' = Outcome("put", element, t, effective_ttl(t),
                                   when, queue, swept, "", 0, FALSE)
           ELSE /\ queue' = swept
                /\ History(queue, swept, 0, 0)
                /\ last' = Outcome("put", element, t, effective_ttl(t),
                                   when, queue, swept, "QueueFull", 0, FALSE)

\* TTLQueue.put(element, ttl), the second timer reading being no earlier
\* than the first.
TTLQueue_put ==
    /\ kind = "queue"
    /\ \E element \in Values, t \in 0..MaxTtl, now2 \in clock..MaxClock :
         TTLQueue_put_call(element, t, now2)
    /\ UNCHANGED <<kind, qsize, ttl>>

\* TTLQueue.get(): sweep, then pop the leftmost entry and return its object.
TTLQueue_get ==
    /\ kind = "queue"
    /\ LET when == clock
           swept == TTLQueue_expire(queue, when)
       IN  IF is_empty(swept)
           THEN /\ queue' = swept
                /\ History(queue, swept, 0, 0)
                /\ last' = Outcome("get", 0, 0, 0, when, queue, swept,
                                   "QueueEmpty", 0, FALSE)
           ELSE /\ queue' = popleft_rest(swept)
                /\ History(queue, swept, 0, popleft_item(swept).obj)
                /\ last' = Outcome("get", 0, 0, 0, when, queue, swept, "",
                                   popleft_item(swept).obj, FALSE)
    /\ UNCHANGED <<kind, qsize, ttl, clock>>

\* TTLQueue.__contains__(item): sweep, then search the deque for an entry
\* equal to TTLItem(item, None).
TTLQueue_contains ==
    /\ kind = "queue"
    /\ \E item \in Values :
         LET when == clock
             swept == TTLQueue_expire(queue, when)
         IN  /\ queue' = swept
             /\ History(queue, swept, 0, 0)
             /\ last' = Outcome("in", item, 0, 0, when, queue, swept, "", 0,
                                contains(swept, TTLItem(item, None)))
    /\ UNCHANGED <<kind, qsize, ttl, clock>>

\* TTLStack.push(element, ttl): as put, the entry goes to the left end.
TTLStack_push ==
    /\ kind = "stack"
    /\ \E element \in Values, t \in 0..MaxTtl, now2 \in clock..MaxClock :
         LET when == clock
             swept == TTLStack_expire(queue, when)
             date == effective_ttl(t) + now2
         IN  /\ clock' = now2
             /\ IF has_room(swept)
                THEN /\ Len(swept) < MaxLen
                     /\ queue' = appendleft(swept, TTLItem(element, date))
                     /\ History(queue, swept, element, 0)
                     /\ last' = Outcome("put", element, t, effective_ttl(t),
                                        when, queue, swept, "", 0, FALSE)
                ELSE /\ queue' = swept
                     /\ History(queue, swept, 0, 0)
                     /\ last' = Outcome("put", element, t, effective_ttl(t),
                                        when, queue, swept, "StackFull", 0, FALSE)
    /\ UNCHANGED <<kind, qsize, ttl>>

\* TTLStack.pop(): sweep, then pop the leftmost entry and return its object.
TTLStack_pop ==
    /\ kind = "stack"
    /\ LET when == clock
           swept == TTLStack_expire(queue, when)
       IN  IF is_empty(swept)
           THEN /\ queue' = swept
                /\ History(queue, swept, 0, 0)
                /\ last' = Outcome("get", 0, 0, 0, when, queue, swept,
                                   "StackEmpty", 0, FALSE)
           ELSE /\ queue' = popleft_rest(swept)
                /\ History(queue, swept, 0, popleft_item(swept).obj)
                /\ last' = Outcome("get", 0, 0, 0, when, queue, swept, "",
                                   popleft_item(swept).obj, FALSE)
    /\ UNCHANGED <<kind, qsize, ttl, clock>>

\* TTLStack.__contains__(item)
TTLStack_contains ==
    /\ kind = "stack"
    /\ \E item \in Values :
         LET when == clock
             swept == TTLStack_expire(queue, when)
         IN  /\ queue' = swept
             /\ History(queue, swept, 0, 0)
             /\ last' = Outcome("in", item, 0, 0, when, queue, swept, "", 0,
                                contains(swept, TTLItem(item, None)))
    /\ UNCHANGED <<kind, qsize, ttl, clock>>

\* TTLHeap.put(element, ttl): as TTLQueue.put, the entry is heappush-ed.
TTLHeap_put ==
    /\ kind = "heap"
    /\ \E element \in Values, t \in 0..MaxTtl, now2 \in clock..MaxClock :
         LET when == clock
             swept == TTLHeap_expire(queue, when)
             date == effective_ttl(t) + now2
         IN  /\ clock' = now2
             /\ IF has_room(swept)
                THEN /\ Len(swept) < MaxLen
                     /\ queue' = heappush(swept, TTLItem(element, date))
                     /\ History(queue, swept, element, 0)
                     /\ last' = Outcome("put", element, t, effective_ttl(t),
                                        when, queue, swept, "", 0, FALSE)
                ELSE /\ queue' = swept
                     /\ History(queue, swept, 0, 0)
                     /\ last' = Outcome("put", element, t, effective_ttl(t),
                                        when, queue, swept, "QueueFull", 0, FALSE)
    /\ UNCHANGED <<kind, qsize, ttl>>

\* TTLHeap.get(): sweep, then heappop and return the object.
TTLHeap_get ==
    /\ kind = "heap"
    /\ LET when == clock
           swept == TTLHeap_expire(queue, when)
       IN  IF is_empty(swept)
           THEN /\ queue' = swept
                /\ History(queue, swept, 0, 0)
                /\ last' = Outcome("get", 0, 0, 0, when, queue, swept,
                                   "QueueEmpty", 0, FALSE)
           ELSE /\ queue' = heappop_rest(swept)
                /\ History(queue, swept, 0, heappop_item(swept).obj)
                /\ last' = Outcome("get", 0, 0, 0, when, queue, swept, "",
                                   heappop_item(swept).obj, FALSE)
    /\ UNCHANGED <<kind, qsize, ttl, clock>>

\* TTLHeap.__contains__(item): super().__contains__(item) sweeps and
\* searches, and its answer is dropped: the method returns None, which the
\* 'in' operator reads as False.
TTLHeap_contains ==
    /\ kind = "heap"
    /\ \E item \in Values :
         LET when == clock
             swept == TTLHeap_expire(queue, when)
         IN  /\ queue' = swept
             /\ History(queue, swept, 0, 0)
             /\ last' = Outcome("in", item, 0, 0, when, queue, swept, "", 0, FALSE)
    /\ UNCHANGED <<kind, qsize, ttl, clock>>

Next ==
    \/ Tick
    \/ TTLQueue_put
    \/ TTLQueue_get
    \/ TTLQueue_contains
    \/ TTLStack_push
    \/ TTLStack_pop
    \/ TTLStack_contains
    \/ TTLHeap_put
    \/ TTLHeap_get
    \/ TTLHeap_contains

Spec == Init /\ [][Next]_vars

\* ------------------------------------------------------------- observers
\* bool(self._queue), bool(self._stack): reading only entries that are still
\* to expire would be another container.
truth_unexpired(q) == \E k \in 1..Len(q) : ~is_expired(q[k], clock)

\* bool(self._queue), bool(self._stack): a sequence is true when it holds
\* an entry.
truth(q) == Len(q) > 0

\* [item.obj for item in self._queue]: the objects, in the order of the
\* backing sequence.
objects(q) == [k \in 1..Len(q) |-> q[k].obj]

\* The longest list a container is compared with.
MaxOther == 2

\* The lists a container is compared with.
Others == UNION {[1..n -> Values] : n \in 0..MaxOther}

TTLQueue_bool ==
    /\ kind = "queue"
    /\ last' = Observed("bool", <<>>, "", truth(queue), <<>>)
    /\ UNCHANGED <<kind, qsize, ttl, clock, queue, expired, pending>>

\* iter(self) run to its end: the generator yields item.obj of each entry.
TTLQueue_iter ==
    /\ kind = "queue"
    /\ last' = Observed("iter", <<>>, "", FALSE, objects(queue))
    /\ UNCHANGED <<kind, qsize, ttl, clock, queue, expired, pending>>

TTLQueue_eq ==
    /\ kind = "queue"
    /\ \E other \in Others :
         last' = Observed("eq", other, "", objects(queue) = other, <<>>)
    /\ UNCHANGED <<kind, qsize, ttl, clock, queue, expired, pending>>

TTLStack_bool ==
    /\ kind = "stack"
    /\ last' = Observed("bool", <<>>, "", truth(queue), <<>>)
    /\ UNCHANGED <<kind, qsize, ttl, clock, queue, expired, pending>>

TTLStack_eq ==
    /\ kind = "stack"
    /\ \E other \in Others :
         last' = Observed("eq", other, "", objects(queue) = other, <<>>)
    /\ UNCHANGED <<kind, qsize, ttl, clock, queue, expired, pending>>

\* TTLHeap.__iter__ builds the generator of TTLQueue.__iter__, drops it and
\* returns None: iter(heap) raises TypeError and yields nothing.
TTLHeap_iter ==
    /\ kind = "heap"
    /\ last' = Observed("iter", <<>>, "TypeError", FALSE, <<>>)
    /\ UNCHANGED <<kind, qsize, ttl, clock, queue, expired, pending>>

TTLHeap_bool ==
    /\ kind = "heap"
    /\ last' = Observed("bool", <<>>, "", truth(queue), <<>>)
    /\ UNCHANGED <<kind, qsize, ttl, clock, queue, expired, pending>>

TTLHeap_eq ==
    /\ kind = "heap"
    /\ \E other \in Others :
         last' = Observed("eq", other, "", objects(queue) = other, <<>>)
    /\ UNCHANGED <<kind, qsize, ttl, clock, queue, expired, pending>>

NextObservers ==
    \/ Next
    \/ TTLQueue_bool
    \/ TTLQueue_iter
    \/ TTLQueue_eq
    \/ TTLStack_bool
    \/ TTLStack_eq
    \/ TTLHeap_iter
    \/ TTLHeap_bool
    \/ TTLHeap_eq

SpecObservers == Init /\ [][NextObservers]_vars

\* ------------------------------------------------------------- scenario
\* A TTLQueue of size 2 and ttl 5 under a clock that the caller advances by
\* hand from 0 to ScenarioClock and that stands still during a call; the
\* objects A, B, C are 1, 2, 3 and are put with the default ttl.
ScenarioClock == 5

ScenarioInit ==
    /\ kind = "queue"
    /\ qsize = 2
    /\ ttl = 5
    /\ clock = 0
    /\ queue = <<>>
    /\ last = Outcome("init", 0, 0, 0, 0, <<>>, <<>>, "", 0, FALSE)
    /\ expired = FALSE
    /\ pending = <<>>

ScenarioTick == TickTo(ScenarioClock)

ScenarioPut ==
    /\ \E element \in {1, 2, 3} : TTLQueue_put_call(element, 0, clock)
    /\ UNCHANGED <<kind, qsize, ttl>>

ScenarioNext ==
    \/ ScenarioTick
    \/ ScenarioPut
    \/ TTLQueue_get

SpecScenario == ScenarioInit /\ [][ScenarioNext]_vars

\* ------------------------------------------------------------- properties
\* The operations that start with a sweep.
SweepOps == {"put", "get", "in"}

\* The number of entries of q equal to e in object and date.
Count(q, e) == Cardinality({k \in 1..Len(q) : q[k] = e})

Entries(q) == {q[k] : k \in 1..Len(q)}

FullError == IF kind = "stack" THEN "StackFull" ELSE "QueueFull"
EmptyError == IF kind = "stack" THEN "StackEmpty" ELSE "QueueEmpty"

\* C1: after the sweep that starts a put/push, get/pop or membership test at
\* clock reading `when`, no entry whose date is <= when is left in the backing
\* sequence (so none can be returned by get/pop or matched by 'in').
C1_NoExpiredAfterSweep ==
    last.op \in SweepOps =>
        \A k \in 1..Len(last.swept) : last.swept[k].date > last.when

\* C2: the sweep removes only expired entries: every entry whose date is
\* greater than the clock reading of the sweep is as often in the swept
\* sequence as it was in the sequence before the sweep.
C2_OnlyExpiredRemoved ==
    [][last'.op \in SweepOps =>
          \A k \in 1..Len(queue) :
              queue[k].date > last'.when =>
                  Count(last'.swept, queue[k]) >= Count(queue, queue[k])]_vars

\* C3: an entry inserted with ttl 0 into a container whose default ttl is 0
\* never expires: the sweep of the next operation keeps it, and on a stack of
\* size 1 the next push raises StackFull.
C3_ZeroTtlNeverExpires ==
    [][(/\ ttl = 0
        /\ last.op = "put" /\ last.raised = "" /\ last.ettl = 0
        /\ last'.op \in SweepOps)
       => /\ Count(last'.swept, TTLItem(last.arg, clock)) >= 1
          /\ (kind = "stack" /\ qsize = 1 /\ last'.op = "put")
                 => last'.raised = "StackFull"]_vars

\* C4: a container constructed with a positive size N never holds more than
\* N entries.
C4_AtMostCapacity == qsize # inf => Len(queue) <= qsize

\* C4 witness: a container filled to its size has refused an insertion.
C4_Witness ==
    /\ qsize # inf /\ Len(queue) = qsize
    /\ last.op = "put" /\ last.raised # ""

\* C5: put/push raises Full exactly when the swept sequence holds qsize
\* entries; when it raises the backing sequence is the swept sequence;
\* otherwise the backing sequence is the swept sequence plus one entry.
C5_FullExactlyAtCapacity ==
    last.op = "put" =>
        /\ (last.raised # "") <=> (Len(last.swept) = qsize)
        /\ last.raised \in {"", FullError}
        /\ last.raised # "" => queue = last.swept
        /\ last.raised = "" =>
               /\ Len(queue) = Len(last.swept) + 1
               /\ \E k \in 1..Len(queue) :
                      \A e \in Entries(queue) :
                          Count(queue, e) = Count(last.swept, e)
                                            + (IF e = queue[k] THEN 1 ELSE 0)

\* C5 witness: an insertion into a container that was at capacity succeeded
\* because its own sweep removed an entry.
C5_Witness ==
    /\ last.op = "put" /\ last.raised = ""
    /\ last.removed >= 1
    /\ Len(last.swept) + last.removed = qsize

\* C6: get/pop raises Empty exactly when no entry survives the sweep, and then
\* the backing sequence is the swept sequence; otherwise it removes exactly
\* one entry, the one whose object it returns.
C6_EmptyExactlyWhenNoSurvivor ==
    last.op = "get" =>
        /\ (last.raised # "") <=> (last.swept = <<>>)
        /\ last.raised \in {"", EmptyError}
        /\ last.raised # "" => queue = last.swept /\ last.ret = 0
        /\ last.raised = "" =>
               /\ Len(queue) = Len(last.swept) - 1
               /\ \E k \in 1..Len(last.swept) :
                      /\ last.swept[k].obj = last.ret
                      /\ \A e \in Entries(last.swept) :
                             Count(last.swept, e) = Count(queue, e)
                                 + (IF e = last.swept[k] THEN 1 ELSE 0)

\* C6 witness: a get/pop raised Empty after its sweep removed every entry.
C6_Witness ==
    /\ last.op = "get" /\ last.raised # ""
    /\ last.removed >= 1

\* C7: in a TTLQueue from which no entry has expired, get() returns the
\* objects in the order they were put: each get returns the oldest object put
\* and not yet returned, whatever puts and membership tests come in between.
C7_FifoOrder ==
    [][(kind = "queue" /\ last'.op = "get" /\ last'.raised = "" /\ ~expired')
       => /\ pending # <<>>
          /\ last'.ret = pending[1]]_vars

\* C7 witness: with no expiry, a get returned the oldest object while a
\* different, newer object stayed in the queue.
C7_Witness ==
    /\ kind = "queue" /\ ~expired
    /\ last.op = "get" /\ last.raised = ""
    /\ queue # <<>> /\ queue[Len(queue)].obj # last.ret

\* C8: in a TTLStack from which no entry has expired, pop() returns the most
\* recently pushed object that has not yet been popped.
C8_LifoOrder ==
    [][(kind = "stack" /\ last'.op = "get" /\ last'.raised = "" /\ ~expired')
       => /\ pending # <<>>
          /\ last'.ret = pending[Len(pending)]]_vars

\* C8 witness: with no expiry, a pop returned the newest object while a
\* different, older object stayed in the stack.
C8_Witness ==
    /\ kind = "stack" /\ ~expired
    /\ last.op = "get" /\ last.raised = ""
    /\ queue # <<>> /\ queue[Len(queue)].obj # last.ret

\* C9: in a TTLHeap from which no entry has expired, get() returns a minimum
\* of the objects resident when it is called.
C9_HeapGetsMinimum ==
    (kind = "heap" /\ ~expired /\ last.op = "get" /\ last.raised = "")
        => \A k \in 1..Len(last.swept) : last.ret <= last.swept[k].obj

\* C9 witness: with no expiry, a get on a heap of MaxLen entries returned the
\* minimum while a larger object, put and not yet returned, stayed.
C9_Witness ==
    /\ kind = "heap" /\ ~expired
    /\ last.op = "get" /\ last.raised = ""
    /\ Len(last.swept) = MaxLen
    /\ pending # <<>> /\ pending[1] > last.ret

\* The array h is a binary min-heap on the objects: no entry is less than its
\* parent (the parent of index k, counted from 1, is k \div 2).
IsHeap(h) == \A k \in 2..Len(h) : h[k \div 2].obj <= h[k].obj

\* C10: when the sweep of a TTLHeap removes some entries and keeps others, it
\* leaves a valid binary min-heap, and a get() then returns the minimum of the
\* surviving objects.
C10_SweepKeepsHeap ==
    (/\ kind = "heap" /\ last.op \in SweepOps
     /\ last.removed >= 1 /\ last.swept # <<>>)
        => /\ IsHeap(last.swept)
           /\ last.op = "get" =>
                  \A k \in 1..Len(last.swept) : last.ret <= last.swept[k].obj

\* The entries of q whose date is greater than `when`, in their order.
RECURSIVE Survivors(_, _)
Survivors(q, when) ==
    IF q = <<>> THEN q
    ELSE (IF Head(q).date > when THEN <<Head(q)>> ELSE <<>>)
         \o Survivors(Tail(q), when)

\* The timestamps a sweep may be given.
Timestamps == 0..(MaxClock + MaxTtl)

\* C11: in a TTLQueue or TTLStack the sweep keeps the surviving entries in
\* their order, so that get() returns the object of the oldest entry whose
\* date is greater than the clock reading and pop() that of the newest one
\* (in both the leftmost surviving entry of the backing sequence).
C11_GetReturnsFirstSurvivor ==
    [][(/\ kind \in {"queue", "stack"}
        /\ last'.op = "get"
        /\ Survivors(queue, last'.when) # <<>>)
       => /\ last'.raised = ""
          /\ last'.ret = Survivors(queue, last'.when)[1].obj]_vars

\* C12: for every container and every reachable backing sequence, calling
\* expire twice with the same timestamp leaves what calling it once leaves.
C12_SweepIdempotent ==
    \A w \in Timestamps : expire(expire(queue, w), w) = expire(queue, w)

\* C13: 'v in heap' on a TTLHeap is true exactly when, after the sweep, an
\* entry of the heap holds the object v.
C13_HeapMembership ==
    (kind = "heap" /\ last.op = "in")
        => (last.found <=> \E k \in 1..Len(last.swept) :
                               last.swept[k].obj = last.arg)

\* C14: in a TTLQueue or TTLStack, 'v in c' sweeps and is then true exactly
\* when some entry whose date is greater than the clock reading holds the
\* object v; the dates take no part in the comparison.
C14_MembershipOfSurvivors ==
    [][(kind \in {"queue", "stack"} /\ last'.op = "in")
       => /\ last'.when = clock
          /\ queue' = last'.swept
          /\ last'.found <=>
                 \E k \in 1..Len(queue) :
                     /\ queue[k].date > last'.when
                     /\ queue[k].obj = last'.arg]_vars

\* C14 witness: a membership test answered True after its sweep removed the
\* surviving entry of that object in place of an expired one of equal value.
C14_Witness ==
    /\ kind \in {"queue", "stack"}
    /\ last.op = "in" /\ last.found
    /\ last.removed >= 1
    /\ \A k \in 1..Len(last.swept) :
           last.swept[k].obj = last.arg => last.swept[k].date <= last.when

\* C16: when the clock has reached the date of every resident entry, one
\* membership test leaves the container empty.
C16_AllExpiredThenEmpty ==
    [][(/\ last'.op = "in"
        /\ \A k \in 1..Len(queue) : queue[k].date <= clock)
       => queue' = <<>>]_vars

\* C16 witness: a membership test emptied a container that held several
\* entries, all of them expired.
C16_Witness ==
    /\ last.op = "in" /\ queue = <<>>
    /\ last.removed >= 2

\* The number of entries of q that hold the object v.
CountObj(q, v) == Cardinality({k \in 1..Len(q) : q[k].obj = v})

\* C19: for every container and every backing sequence, expire(w) ends, tests
\* every entry exactly once, removes as many entries as have a date <= w, and
\* leaves the objects (counted with multiplicity) of the entries whose date
\* is greater than w.
C19_SweepCountsAndValues ==
    \A w \in Timestamps :
        LET swept == expire(queue, w)
            tested == visited(queue, w)
        IN  /\ Len(tested) = Len(queue)
            /\ \A e \in Entries(queue) : Count(tested, e) = Count(queue, e)
            /\ Len(queue) - Len(swept)
                   = Cardinality({k \in 1..Len(queue) : queue[k].date <= w})
            /\ \A v \in Values :
                   CountObj(swept, v) = CountObj(Survivors(queue, w), v)

\* C19 witness: a backing sequence from which the sweep at the clock reading
\* removes the wrong one of two entries holding the same object, leaving an
\* expired entry behind.
C19_Witness ==
    /\ \E i, j \in 1..Len(queue) :
           /\ i < j /\ queue[i].obj = queue[j].obj
           /\ queue[i].date > clock /\ queue[j].date <= clock
    /\ \E k \in 1..Len(expire(queue, clock)) :
           expire(queue, clock)[k].date <= clock

\* The entries of q hold pairwise distinct objects.
DistinctObjects(q) ==
    \A i, j \in 1..Len(q) : q[i].obj = q[j].obj => i = j

\* C20: in a TTLQueue or TTLStack whose entries hold pairwise distinct
\* objects, expire(w) leaves exactly the entries whose date is greater than
\* w, in their order and with their dates.
C20_SweepIsFilterWhenDistinct ==
    (kind \in {"queue", "stack"} /\ DistinctObjects(queue))
        => \A w \in Timestamps : expire(queue, w) = Survivors(queue, w)

\* C20 witness: a backing sequence of distinct objects of which the sweep at
\* the clock reading removes one entry and keeps another.
C20_Witness ==
    /\ kind \in {"queue", "stack"} /\ DistinctObjects(queue)
    /\ Len(queue) >= 2
    /\ expire(queue, clock) # queue
    /\ expire(queue, clock) # <<>>

\* The effective ttl the call put(element, t) is to use.
ExpectedTtl(t) == IF t # 0 THEN t ELSE ttl

\* C15 as claimed: the entry stored by put/push has date = now + effective
\* ttl, now being the clock reading at which the sweep of that call ran.
C15_DateFromSweepReading ==
    (last.op = "put" /\ last.raised = "")
        => Count(queue, TTLItem(last.arg, last.when + ExpectedTtl(last.t)))
               = Count(last.swept,
                       TTLItem(last.arg, last.when + ExpectedTtl(last.t))) + 1

\* C15 as amended: the entry stored by put/push has date = now2 + effective
\* ttl, now2 being the reading of the timer that the call takes after its
\* sweep (no earlier than the reading of the sweep); the effective ttl is the
\* ttl argument when it is not 0 and self.ttl otherwise.
C15_DateFromSecondReading ==
    (last.op = "put" /\ last.raised = "")
        => /\ last.when <= clock
           /\ Count(queue, TTLItem(last.arg, clock + ExpectedTtl(last.t)))
                  = Count(last.swept,
                          TTLItem(last.arg, clock + ExpectedTtl(last.t))) + 1

\* C15 witness: a put/push with a ttl argument shorter than self.ttl stored
\* its entry after the timer had advanced past the reading of the sweep.
C15_Witness ==
    /\ last.op = "put" /\ last.raised = ""
    /\ last.t # 0 /\ last.t < ttl
    /\ last.when < clock

\* C17: queue of size 2 and ttl 5: put(A) at 0 and put(B) at 1 succeed, put(C)
\* at 2 raises QueueFull and leaves A and B; get() at 5 sweeps A (date 5 <= 5),
\* keeps B (date 6 > 5), returns B and leaves the queue empty.
C17_Scenario ==
    [][/\ (queue = <<>> /\ clock = 0 /\ last'.op = "put" /\ last'.arg = 1)
          => (last'.raised = "" /\ queue' = <<TTLItem(1, 5)>>)
       /\ (/\ queue = <<TTLItem(1, 5)>> /\ clock = 1
           /\ last'.op = "put" /\ last'.arg = 2)
          => (/\ last'.raised = ""
              /\ queue' = <<TTLItem(1, 5), TTLItem(2, 6)>>)
       /\ (/\ queue = <<TTLItem(1, 5), TTLItem(2, 6)>> /\ clock = 2
           /\ last'.op = "put" /\ last'.arg = 3)
          => (last'.raised = "QueueFull" /\ queue' = queue)
       /\ (/\ queue = <<TTLItem(1, 5), TTLItem(2, 6)>> /\ clock = 5
           /\ last'.op = "get")
          => (/\ last'.swept = <<TTLItem(2, 6)>>
              /\ last'.raised = "" /\ last'.ret = 2
              /\ queue' = <<>>)]_vars

\* C17 witness: get() at 5 swept one entry, returned B from the only entry
\* left, of date 6, and emptied the queue.
C17_Witness ==
    /\ clock = 5 /\ last.op = "get" /\ last.when = 5
    /\ last.removed = 1 /\ last.swept = <<TTLItem(2, 6)>>
    /\ last.ret = 2 /\ queue = <<>>

\* The operations that call no expire.
ObserverOps == {"bool", "iter", "eq"}

\* C18: bool, iteration and == run no sweep and leave the backing sequence as
\* it is: bool is true whenever an entry is resident, expired or not, == compares
\* the objects of all resident entries, and iterating a TTLQueue yields them
\* all, oldest first; a step that changes the backing sequence is a put/push,
\* a get/pop or a membership test.
C18_ObserversDoNotSweep ==
    [][/\ last'.op \in ObserverOps
          => /\ queue' = queue /\ clock' = clock
             /\ last'.removed = 0 /\ last'.swept = queue
             /\ last'.op = "bool" => (last'.found <=> queue # <<>>)
             /\ last'.op = "eq"
                => (last'.found <=>
                       /\ Len(last'.other) = Len(queue)
                       /\ \A k \in 1..Len(queue) :
                            last'.other[k] = queue[k].obj)
             /\ (last'.op = "iter" /\ kind = "queue")
                => /\ last'.raised = ""
                   /\ Len(last'.seq) = Len(queue)
                   /\ \A k \in 1..Len(queue) : last'.seq[k] = queue[k].obj
                   /\ ~expired => last'.seq = pending
       /\ queue' # queue => last'.op \in SweepOps]_vars

\* C18 witness: with a non-zero ttl, bool answered true and an iteration
\* yielded an object while every resident entry had expired.
C18_Witness ==
    /\ ttl # 0 /\ queue # <<>>
    /\ \A k \in 1..Len(queue) : queue[k].date <= clock
    /\ \/ last.op = "bool" /\ last.found
       \/ last.op = "iter" /\ last.seq # <<>> /\ Len(pending) = 2

=============================================================================
